---- MODULE Spec2Model ----
(***************************************************************************)
(* django_select2 widgets (forms.py): the light / heavy / auto-heavy /     *)
(* tag widget family, the cache-backed registry the heavy widgets write   *)
(* on every render, and the auto-heavy query filter.                       *)
(*                                                                         *)
(* Three specifications share the module:                                  *)
(*   Spec        the registry: widget objects of several processes, one    *)
(*               shared cache, renders, lookups, destruction, expiry;      *)
(*   SpecRender  build_attrs and render_options of one widget, over all    *)
(*               caller inputs;                                            *)
(*   SpecFilter  the auto-heavy search configuration and filter_queryset.  *)
(***************************************************************************)
EXTENDS Integers, Sequences, FiniteSets, TLC

VARIABLES heap,      \* registry: [process, address] -> the widget object living there
          cache,     \* the shared cache: cache key -> stored widget
          pages,     \* field ids emitted by renders, with the widget that emitted them
          created,   \* number of widget objects constructed so far
          widget,    \* render: the widget under test
          lists,     \* filter: the list objects search_fields attributes point to
          widgets,   \* filter: the auto-heavy widgets constructed so far
          ret        \* the last call: operation, arguments and outcome

vars == <<heap, cache, pages, created, widget, lists, widgets, ret>>

-----------------------------------------------------------------------------
(* Bounds *)

NumProcs   == 2      \* processes sharing the cache
NumAddrs   == 2      \* object addresses (values of id()) available to a process
MaxCreated == 3      \* widget objects constructed in one behaviour
MaxWidgets == 2      \* auto-heavy widgets constructed in one behaviour

Procs == 1..NumProcs
Addrs == 1..NumAddrs

-----------------------------------------------------------------------------
(* Python values *)

\* None, where a dict or a list may also stand
NoneVal == [none__ |-> TRUE]

EmptyDict == [k \in {} |-> TRUE]

\* dict.update / dict(d1, **d2): the right operand wins
DictUpdate(d1, d2) ==
    [k \in (DOMAIN d1) \cup (DOMAIN d2) |-> IF k \in DOMAIN d2 THEN d2[k] ELSE d1[k]]

\* d[k] = v
DictSet(d, k, v) == DictUpdate(d, [x \in {k} |-> v])

\* d.setdefault(k, v)
SetDefault(d, k, v) == IF k \in DOMAIN d THEN d ELSE DictSet(d, k, v)

\* truth value of a dict argument: None and {} are false
Truthy(d) == d # NoneVal /\ DOMAIN d # {}

-----------------------------------------------------------------------------
(* Widget classes *)

LightClasses == {"Select2Widget", "Select2MultipleWidget"}
HeavyClasses == {"HeavySelect2Widget", "HeavySelect2MultipleWidget"}
TagClasses   == {"HeavySelect2TagWidget", "AutoHeavySelect2TagWidget"}
AutoClasses  == {"AutoHeavySelect2Widget", "AutoHeavySelect2MultipleWidget",
                 "AutoHeavySelect2TagWidget"}

\* the classes whose method resolution order contains HeavySelect2Mixin
IsHeavy(cls) == cls \in HeavyClasses \cup TagClasses \cup AutoClasses

\* the classes whose method resolution order contains HeavySelect2TagWidget
IsTag(cls) == cls \in TagClasses

-----------------------------------------------------------------------------
(* Signing and the cache *)

SECRET_KEY == 5
SELECT2_CACHE_PREFIX == "select2_"
BadSignature == -1
Miss == 0

Mac(payload) == (payload * 7 + SECRET_KEY) % 13

\* signing.dumps(obj): the payload with its signature
Dumps(obj) == [payload |-> obj, sig |-> Mac(obj)]

\* signing.loads(token): the payload when the signature verifies
Loads(token) == IF token.sig = Mac(token.payload) THEN token.payload ELSE BadSignature

NoToken == [payload |-> 0, sig |-> 0]

\* "%s%s" % (settings.SELECT2_CACHE_PREFIX, id(self))
_get_cache_key(w) == <<SELECT2_CACHE_PREFIX, w.id>>

CacheKeys == {<<SELECT2_CACHE_PREFIX, a>> : a \in Addrs}

\* cache.set(key, value)
CacheSet(c, key, value) == [c EXCEPT ![key] = value]

\* cache.get(key): the stored value, or a miss
CacheGet(c, key) == IF key \in DOMAIN c THEN c[key] ELSE Miss

\* the Ajax view's lookup of a field id: unsign, then read prefix + identity
Resolve(c, field_id) ==
    LET ident == Loads(field_id)
    IN  IF ident = BadSignature THEN Miss
        ELSE CacheGet(c, <<SELECT2_CACHE_PREFIX, ident>>)

-----------------------------------------------------------------------------
(* build_attrs *)

MARKER == "django-select2"

\* reverse_lazy(self.data_view)
get_url(w) == <<"url-of", w.data_view>>

\* django.forms.Widget.build_attrs: dict(self.attrs, **kwargs), then
\* update(extra_attrs) when extra_attrs is truthy
WidgetBuildAttrs(w, extra_attrs, kwargs) ==
    LET attrs == DictUpdate(w.attrs, kwargs)
    IN  IF Truthy(extra_attrs) THEN DictUpdate(attrs, extra_attrs) ELSE attrs

\* Select2Mixin.build_attrs; a 'class' value is the sequence of its
\* space-separated words
Select2MixinBuildAttrs(w, extra_attrs, kwargs) ==
    LET attrs0 == WidgetBuildAttrs(w, NoneVal, kwargs)
        attrs1 == SetDefault(attrs0, "data-allowClear",
                             IF w.is_required THEN "true" ELSE "false")
    IN  IF "class" \in DOMAIN attrs1
        THEN DictSet(attrs1, "class", attrs1["class"] \o <<MARKER>>)
        ELSE DictSet(attrs1, "class", <<MARKER>>)

\* the outcome of a build_attrs call: the exception raised, if any, the
\* returned attributes, and the cache and self.widget_id it leaves behind
Outcome(error, attrs, c, widget_id) ==
    [error |-> error, attrs |-> attrs, cache |-> c, widget_id |-> widget_id]

\* HeavySelect2Mixin.build_attrs(self, extra_attrs=None, **kwargs), called
\* with the positional arguments posargs (after self): more than one does
\* not bind.  kwargs.pop('choices') runs after the attributes were built and
\* changes only the local kwargs.  The cache keeps a pickled copy of the
\* widget, named here by the widget's uid.
HeavyBuildAttrs(w, c, posargs, kwargs) ==
    IF Len(posargs) > 1
    THEN Outcome("TypeError", EmptyDict, c, w.widget_id)
    ELSE LET extra_attrs == IF Len(posargs) = 1 THEN posargs[1] ELSE NoneVal
             attrs0 == Select2MixinBuildAttrs(w, extra_attrs, kwargs)
             widget_id == Dumps(w.id)
             c1 == CacheSet(c, _get_cache_key(w), w.uid)
             attrs1 == DictSet(attrs0, "data-field_id", widget_id)
             attrs2 == SetDefault(attrs1, "data-ajax--url", get_url(w))
             attrs3 == SetDefault(attrs2, "data-ajax--cache", "true")
             attrs4 == SetDefault(attrs3, "data-ajax--type", "GET")
             attrs5 == SetDefault(attrs4, "data-minimumInputLength", 2)
         IN  Outcome("none", attrs5, c1, widget_id)

\* HeavySelect2TagWidget.build_attrs: the super call passes self and
\* extra_attrs as positional arguments
TagBuildAttrs(w, c, extra_attrs, kwargs) ==
    LET r == HeavyBuildAttrs(w, c, <<w, extra_attrs>>, kwargs)
    IN  IF r.error # "none" THEN r
        ELSE LET attrs1 == DictSet(r.attrs, "data-minimumInputLength", 1)
                 attrs2 == DictSet(attrs1, "data-tags", "true")
                 attrs3 == DictSet(attrs2, "data-tokenSeparators", <<",", " ">>)
             IN  [r EXCEPT !.attrs = attrs3]

\* widget.build_attrs(extra_attrs, **kwargs), dispatched on the class
build_attrs(w, c, extra_attrs, kwargs) ==
    IF IsTag(w.cls) THEN TagBuildAttrs(w, c, extra_attrs, kwargs)
    ELSE IF IsHeavy(w.cls) THEN HeavyBuildAttrs(w, c, <<extra_attrs>>, kwargs)
    ELSE Outcome("none", Select2MixinBuildAttrs(w, extra_attrs, kwargs), c, w.widget_id)

\* a widget object after construction
NewWidget(uid, cls, addr, is_required, attrs) ==
    [uid |-> uid, cls |-> cls, id |-> addr, is_required |-> is_required,
     attrs |-> attrs,
     data_view |-> IF cls \in AutoClasses THEN "django_select2_central_json"
                   ELSE "search_endpoint",
     widget_id |-> NoToken]

-----------------------------------------------------------------------------
(* Caller inputs of build_attrs *)

\* extra_attrs, as Widget.render passes the field's attrs
ExtraAttrsInputs ==
    { NoneVal,
      EmptyDict,
      [id |-> "id_city"],
      [class |-> <<"form-control">>],
      [k \in {"id", "data-minimumInputLength"} |->
          IF k = "id" THEN "id_city" ELSE 5] }

\* keyword arguments, as Widget.render passes name=name
KwargsInputs ==
    { EmptyDict,
      [name |-> "city"],
      [k \in {"name", "class"} |-> IF k = "name" THEN "city" ELSE <<"wide">>],
      [k \in {"name", "data-minimumInputLength"} |->
          IF k = "name" THEN "city" ELSE 7] }

-----------------------------------------------------------------------------
(* The registry: processes, widget objects, the shared cache *)

NoObject == [uid |-> 0]

\* the classes of the widgets the registry specification constructs
RegistryClasses == {"HeavySelect2Widget", "HeavySelect2TagWidget"}

Live(uid) == \E p \in Procs, a \in Addrs : heap[p][a].uid = uid

LiveWidgets == {heap[p][a] : p \in Procs, a \in Addrs} \ {NoObject}

\* field ids an Ajax request may carry: the emitted ones and forged ones
ForgedTokens == {[payload |-> a, sig |-> (Mac(a) + 1) % 13] : a \in Addrs}
SignedTokens == {Dumps(a) : a \in Addrs}

Call(op, uid, error, field_id, result) ==
    [op |-> op, uid |-> uid, error |-> error, field_id |-> field_id, result |-> result]

Init ==
    /\ heap = [p \in Procs |-> [a \in Addrs |-> NoObject]]
    /\ cache = [k \in CacheKeys |-> Miss]
    /\ pages = {}
    /\ created = 0
    /\ widget = NoObject
    /\ lists = << >>
    /\ widgets = << >>
    /\ ret = Call("init", 0, "none", NoToken, Miss)

\* a process constructs a heavy widget; the allocator places it at a free address
Create(p, a, cls) ==
    /\ created < MaxCreated
    /\ heap[p][a] = NoObject
    /\ heap' = [heap EXCEPT ![p][a] = NewWidget(created + 1, cls, a, FALSE, EmptyDict)]
    /\ created' = created + 1
    /\ ret' = Call("create", created + 1, "none", NoToken, Miss)
    /\ UNCHANGED <<cache, pages, widget, lists, widgets>>

\* the widget object is garbage-collected; its address becomes free again
Destroy(p, a) ==
    /\ heap[p][a] # NoObject
    /\ heap' = [heap EXCEPT ![p][a] = NoObject]
    /\ ret' = Call("destroy", heap[p][a].uid, "none", NoToken, Miss)
    /\ UNCHANGED <<cache, pages, created, widget, lists, widgets>>

\* a page render calls build_attrs on the widget
Render(p, a) ==
    /\ heap[p][a] # NoObject
    /\ \E extra_attrs \in {NoneVal, [id |-> "id_city"]}, kwargs \in {[name |-> "city"]} :
         LET w == heap[p][a]
             r == build_attrs(w, cache, extra_attrs, kwargs)
         IN  /\ cache' = r.cache
             /\ heap' = [heap EXCEPT ![p][a].widget_id = r.widget_id]
             /\ pages' = IF r.error = "none"
                         THEN pages \cup {[field_id |-> r.attrs["data-field_id"],
                                           uid |-> w.uid]}
                         ELSE pages
             /\ ret' = Call("build_attrs", w.uid, r.error,
                            IF r.error = "none" THEN r.attrs["data-field_id"]
                            ELSE NoToken, Miss)
    /\ UNCHANGED <<created, widget, lists, widgets>>

\* an Ajax request carrying a field id reaches the view
Lookup(field_id) ==
    /\ field_id \in {pg.field_id : pg \in pages} \cup ForgedTokens
    /\ ret' = Call("resolve", 0, "none", field_id, Resolve(cache, field_id))
    /\ UNCHANGED <<heap, cache, pages, created, widget, lists, widgets>>

\* a cache entry reaches its time-to-live
Expire(key) ==
    /\ cache[key] # Miss
    /\ cache' = [cache EXCEPT ![key] = Miss]
    /\ ret' = Call("expire", 0, "none", NoToken, Miss)
    /\ UNCHANGED <<heap, pages, created, widget, lists, widgets>>

Next ==
    \/ \E p \in Procs, a \in Addrs, cls \in RegistryClasses : Create(p, a, cls)
    \/ \E p \in Procs, a \in Addrs : Destroy(p, a)
    \/ \E p \in Procs, a \in Addrs : Render(p, a)
    \/ \E t \in SignedTokens \cup ForgedTokens : Lookup(t)
    \/ \E key \in CacheKeys : Expire(key)

Spec == Init /\ [][Next]_vars

\* one process: the registry as a single worker sees it
NextLocal ==
    \/ \E a \in Addrs, cls \in RegistryClasses : Create(1, a, cls)
    \/ \E a \in Addrs : Destroy(1, a)
    \/ \E a \in Addrs : Render(1, a)
    \/ \E t \in SignedTokens \cup ForgedTokens : Lookup(t)
    \/ \E key \in CacheKeys : Expire(key)

SpecLocal == Init /\ [][NextLocal]_vars

-----------------------------------------------------------------------------
(* Registry properties *)

\* the cache keys whose entry holds the widget uid
EntriesOf(uid) == {k \in CacheKeys : cache[k] = uid}

\* C2: after a render of a heavy widget has returned, the key behind the
\* emitted data-field_id belongs to no other live widget, the registry holds
\* exactly one entry for the widget, and resolving the field id gives the
\* widget that was rendered.
C2_RenderRegistersUniqueKey ==
    (ret.op = "build_attrs" /\ ret.error = "none") =>
        /\ Resolve(cache, ret.field_id) = ret.uid
        /\ Cardinality(EntriesOf(ret.uid)) = 1
        /\ \A w \in LiveWidgets :
             w.uid # ret.uid =>
                 _get_cache_key(w) # <<SELECT2_CACHE_PREFIX, Loads(ret.field_id)>>

\* C5: renders of different live widgets never contend: a field id emitted
\* by a widget that is still alive never resolves to another widget.
C5_LiveRendersNeverContend ==
    \A pg \in pages :
        Live(pg.uid) => Resolve(cache, pg.field_id) \in {pg.uid, Miss}

\* C10: a field id emitted by a render of widget W resolves to W or to a
\* miss, also once W is gone and its identity value has been handed out again.
C10_KeyResolvesToEmitterOrMiss ==
    \A pg \in pages : Resolve(cache, pg.field_id) \in {pg.uid, Miss}

-----------------------------------------------------------------------------
(* render_options *)

\* force_text(v) of an integer value: its decimal digits, a text being the
\* sequence of its characters
DigitChar(d) == <<"0", "1", "2", "3", "4", "5", "6", "7", "8", "9">>[d + 1]

RECURSIVE force_text(_)
force_text(v) ==
    IF v < 10 THEN <<DigitChar(v)>>
    ELSE force_text(v \div 10) \o <<DigitChar(v % 10)>>

\* forms.Select.render_option(selected_choices, option_value, option_label)
render_option(selected_choices, option_value, option_label) ==
    [value |-> option_value, label |-> option_label,
     selected |-> option_value \in selected_choices]

\* HeavySelect2Mixin.render_options(choices, selected_choices): the loop
\* unpacks every selected text into (option_value, option_label); the
\* output lines are joined in the iteration order of a set, so they are
\* modelled as a set
render_options(choices, selected_choices) ==
    LET selected == {force_text(v) : v \in selected_choices}
    IN  IF \E s \in selected : Len(s) # 2
        THEN [error |-> "ValueError", output |-> {}]
        ELSE [error |-> "none",
              output |-> {render_option(selected, <<s[1]>>, <<s[2]>>) : s \in selected}]

-----------------------------------------------------------------------------
(* One widget and its callers *)

AllClasses == LightClasses \cup HeavyClasses \cup TagClasses \cup AutoClasses

\* the attrs argument of the widget constructor
SelfAttrsInputs == {EmptyDict, [class |-> <<"select">>]}

\* option lists: (value, label) pairs
ChoicesInputs ==
    { << >>,
      << <<1, <<"O", "n", "e">> >> >>,
      << <<1, <<"O", "n", "e">> >>, <<12, <<"D", "o", "z">> >>,
         <<345, <<"M", "a", "n", "y">> >> >> }

\* the values a form may have selected
SelectedInputs == SUBSET {1, 12, 345}

InitRender ==
    /\ widget \in {NewWidget(1, cls, a, req, attrs) :
                     cls \in AllClasses, a \in {1}, req \in BOOLEAN,
                     attrs \in SelfAttrsInputs}
    /\ cache = [k \in CacheKeys |-> Miss]
    /\ heap = [p \in Procs |-> [a \in Addrs |-> NoObject]]
    /\ pages = {}
    /\ created = 1
    /\ lists = << >>
    /\ widgets = << >>
    /\ ret = [op |-> "init"]

\* a caller computes the widget's HTML attributes
BuildAttrsCall(extra_attrs, kwargs) ==
    LET r == build_attrs(widget, cache, extra_attrs, kwargs)
    IN  /\ cache' = r.cache
        /\ widget' = [widget EXCEPT !.widget_id = r.widget_id]
        /\ ret' = [op |-> "build_attrs", extra_attrs |-> extra_attrs,
                   kwargs |-> kwargs, error |-> r.error, attrs |-> r.attrs]
        /\ UNCHANGED <<heap, pages, created, lists, widgets>>

\* a caller renders the option elements of a heavy widget
RenderOptionsCall(choices, selected_choices) ==
    /\ IsHeavy(widget.cls)
    /\ LET r == render_options(choices, selected_choices)
       IN  ret' = [op |-> "render_options", choices |-> choices,
                   selected_choices |-> selected_choices,
                   error |-> r.error, output |-> r.output]
    /\ UNCHANGED <<heap, cache, pages, created, widget, lists, widgets>>

NextRender ==
    \/ \E extra_attrs \in ExtraAttrsInputs, kwargs \in KwargsInputs :
          BuildAttrsCall(extra_attrs, kwargs)
    \/ \E choices \in ChoicesInputs, selected_choices \in SelectedInputs :
          RenderOptionsCall(choices, selected_choices)

SpecRender == InitRender /\ [][NextRender]_vars

\* the words of a caller's class value all appear in the returned class,
\* any other attribute appears with the caller's value
Kept(attrs, k, v) ==
    /\ k \in DOMAIN attrs
    /\ IF k = "class"
       THEN \A i \in 1..Len(v) : \E j \in 1..Len(attrs[k]) : attrs[k][j] = v[i]
       ELSE attrs[k] = v

\* C1: the attributes build_attrs returns carry the marker class and every
\* attribute and class the caller supplied through extra_attrs or through
\* keyword arguments.
C1_BuildAttrsKeepsCallerAttrs ==
    (ret.op = "build_attrs" /\ ret.error = "none") =>
        /\ "class" \in DOMAIN ret.attrs
        /\ \E j \in 1..Len(ret.attrs["class"]) : ret.attrs["class"][j] = MARKER
        /\ ret.extra_attrs # NoneVal =>
             \A k \in DOMAIN ret.extra_attrs : Kept(ret.attrs, k, ret.extra_attrs[k])
        /\ \A k \in DOMAIN ret.kwargs :
             (ret.extra_attrs = NoneVal \/ k \notin DOMAIN ret.extra_attrs) =>
                 Kept(ret.attrs, k, ret.kwargs[k])

\* C4: build_attrs of a tag widget returns attributes with minimum input
\* length 1, tags enabled and comma and space as token separators, and has
\* registered the widget.
C4_TagBuildAttrs ==
    (ret.op = "build_attrs" /\ IsTag(widget.cls)) =>
        /\ ret.error = "none"
        /\ ret.attrs["data-minimumInputLength"] = 1
        /\ ret.attrs["data-tags"] = "true"
        /\ ret.attrs["data-tokenSeparators"] = <<",", " ">>
        /\ Resolve(cache, ret.attrs["data-field_id"]) = widget.uid

\* the (value, label) pairs of an option list
ChoicePairs(choices) == {choices[i] : i \in 1..Len(choices)}

\* C6: render_options succeeds and renders one selected option, value and
\* label, for each choice whose value is selected, and nothing else.
C6_RenderOptionsSelectedOnly ==
    ret.op = "render_options" =>
        /\ ret.error = "none"
        /\ ret.output =
             {[value |-> force_text(c[1]), label |-> c[2], selected |-> TRUE] :
                c \in {c \in ChoicePairs(ret.choices) : c[1] \in ret.selected_choices}}

-----------------------------------------------------------------------------
(* The auto-heavy search configuration *)

\* the table behind the model "Person": the text of each field of each row
Person ==
    << [name |-> <<"j", "o">>, email |-> <<"a", "x">>, city |-> <<"n", "y">>],
       [name |-> <<"a", "l">>, email |-> <<"j", "o">>, city |-> <<"l", "a">>],
       [name |-> <<"b", "o">>, email |-> <<"b", "x">>, city |-> <<"j", "o">>] >>

\* model._default_manager.all(): every row once
DefaultManagerAll(model) == [i \in 1..Len(Person) |-> i]

\* the search terms of an Ajax request
Terms == { <<"j", "o">>, <<"x">> }

\* text contains term
Contains(text, term) ==
    \E i \in 1..(Len(text) - Len(term) + 1) : SubSeq(text, i, i + Len(term) - 1) = term

\* Python values that the reduce step tells apart by type
PyStr(s) == [type |-> "str", v |-> s]
TypeError == [type |-> "TypeError"]

\* Q(**{key: term}): keyword names must be strings
Q(key, term) ==
    IF key.type = "str"
    THEN [type |-> "Q", children |-> {[lookup |-> key.v, term |-> term]}]
    ELSE TypeError

\* q1 | q2
QOr(q1, q2) ==
    IF q1.type = "Q" /\ q2.type = "Q"
    THEN [type |-> "Q", children |-> q1.children \cup q2.children]
    ELSE TypeError

\* lambda x, y: Q(**{x: term}) | Q(**{y: term})
Lambda(x, y, term) == QOr(Q(x, term), Q(y, term))

\* functools.reduce(function, sequence, initial) with the lambda above; an
\* exception raised by a step ends the reduction
RECURSIVE Reduce(_, _, _)
Reduce(sequence, initial, term) ==
    IF initial.type = "TypeError" \/ sequence = << >> THEN initial
    ELSE Reduce(Tail(sequence), Lambda(initial, PyStr(Head(sequence)), term), term)

\* a row satisfies the condition when one of its lookups matches
Matches(row, select) ==
    \E c \in select.children : Contains(Person[row][c.lookup], c.term)

\* qs.filter(select): the rows of the queryset, in order, that satisfy it
Filter(qs, select) == SelectSeq(qs, LAMBDA row : Matches(row, select))

\* qs.distinct(): every row once, at its first position
RECURSIVE Distinct(_)
Distinct(qs) ==
    IF qs = << >> THEN << >>
    ELSE LET init == Distinct(SubSeq(qs, 1, Len(qs) - 1))
             last == qs[Len(qs)]
         IN  IF \E i \in 1..Len(init) : init[i] = last THEN init
             ELSE Append(init, last)

NoError == [exc |-> "none"]

\* NotImplementedError("<cls> is missing a QuerySet. ...")
MissingQuerySet(cls) == [exc |-> "NotImplementedError", about |-> "QuerySet", cls |-> cls]

\* NotImplementedError('<cls>, must implement "search_fields".')
MissingSearchFields(cls) ==
    [exc |-> "NotImplementedError", about |-> "search_fields", cls |-> cls]

\* get_queryset with the two data sources tested in the other order
get_queryset_ModelFirst(w) ==
    IF w.model # NoneVal
    THEN [error |-> NoError, queryset |-> DefaultManagerAll(w.model)]
    ELSE IF w.queryset # NoneVal
    THEN [error |-> NoError, queryset |-> w.queryset.rows]
    ELSE [error |-> MissingQuerySet(w.cls), queryset |-> << >>]

\* AutoHeavySelect2Mixin.get_queryset
get_queryset(w) ==
    IF w.queryset # NoneVal
    THEN [error |-> NoError, queryset |-> w.queryset.rows]
    ELSE IF w.model # NoneVal
    THEN [error |-> NoError, queryset |-> DefaultManagerAll(w.model)]
    ELSE [error |-> MissingQuerySet(w.cls), queryset |-> << >>]

\* AutoHeavySelect2Mixin.get_search_fields: the list object itself
get_search_fields(w, ls) ==
    IF ls[w.search_fields].items # << >>
    THEN [error |-> NoError, search_fields |-> w.search_fields]
    ELSE [error |-> MissingSearchFields(w.cls), search_fields |-> 0]

\* AutoHeavySelect2Mixin.filter_queryset: the exception raised, if any, the
\* result rows, and the list objects as the call leaves them
filter_queryset(w, ls, term) ==
    LET qs == get_queryset(w)
        sf == get_search_fields(w, ls)
    IN  IF qs.error # NoError THEN [error |-> qs.error, result |-> << >>, lists |-> ls]
        ELSE IF sf.error # NoError THEN [error |-> sf.error, result |-> << >>, lists |-> ls]
        ELSE LET l == sf.search_fields
                 items == ls[l].items
                 \* search_fields.pop(): evaluated before reduce runs, on the
                 \* list reduce then iterates
                 popped == items[Len(items)]
                 ls1 == [ls EXCEPT ![l].items = SubSeq(items, 1, Len(items) - 1)]
                 select == Reduce(ls1[l].items, Q(PyStr(popped), term), term)
             IN  IF select.type = "TypeError"
                 THEN [error |-> [exc |-> "TypeError"], result |-> << >>, lists |-> ls1]
                 ELSE [error |-> NoError, result |-> Distinct(Filter(qs.queryset, select)),
                       lists |-> ls1]

-----------------------------------------------------------------------------
(* Auto-heavy widgets: construction and the Ajax calls *)

\* a list object: its items, and the items it was declared with
ListObject(items) == [items |-> items, declared |-> items]

\* the list objects that exist before any widget does
MixinList == 1      \* AutoHeavySelect2Mixin.search_fields = []
SubclassList == 2   \* the search_fields an integrator's subclass declares

\* the classes auto-heavy widgets are constructed from: one of the module
\* and a subclass of it that declares its own search_fields
FilterClasses == {"AutoHeavySelect2Widget", "CityWidget"}

\* the class attributes an instance falls back to
ClassAttr(cls) ==
    [model |-> NoneVal, queryset |-> NoneVal,
     search_fields |-> IF cls = "CityWidget" THEN SubclassList ELSE MixinList,
     max_results |-> 25]

\* search_fields as a subclass declares them or a caller passes them
FieldLists ==
    { <<"name">>, <<"name", "email">>, <<"name", "email", "city">> }

\* keyword arguments of the constructor
ModelKw == {EmptyDict, [model |-> [model |-> "Person"]]}
QuerysetKw == {EmptyDict, [queryset |-> [rows |-> <<2, 3, 2>>]]}
SearchFieldsKw == {EmptyDict, [search_fields |-> << >>], [search_fields |-> <<"email">>]}

InitKwargs ==
    {DictUpdate(DictUpdate(m, q), f) :
        m \in ModelKw, q \in QuerysetKw, f \in SearchFieldsKw}

\* kwargs.pop(key, default)
Pop(kwargs, key, default) == IF key \in DOMAIN kwargs THEN kwargs[key] ELSE default

InitFilter ==
    /\ \E declared \in FieldLists :
         lists = <<ListObject(<< >>), ListObject(declared)>>
    /\ widgets = << >>
    /\ ret = [op |-> "init"]
    /\ heap = [p \in Procs |-> [a \in Addrs |-> NoObject]]
    /\ cache = [k \in CacheKeys |-> Miss]
    /\ pages = {}
    /\ created = 0
    /\ widget = NoObject

\* AutoHeavySelect2Mixin.__init__: the instance attributes; a search_fields
\* argument is a list object of the caller, the class attribute is the
\* list object of the class
AutoInit(cls, kwargs) ==
    LET own == "search_fields" \in DOMAIN kwargs
        l == IF own THEN Len(lists) + 1 ELSE ClassAttr(cls).search_fields
        ls == IF own THEN Append(lists, ListObject(kwargs["search_fields"])) ELSE lists
        w == [cls |-> cls,
              model |-> Pop(kwargs, "model", ClassAttr(cls).model),
              queryset |-> Pop(kwargs, "queryset", ClassAttr(cls).queryset),
              search_fields |-> l,
              max_results |-> Pop(kwargs, "max_results", ClassAttr(cls).max_results),
              data_view |-> Pop(kwargs, "data_view", "django_select2_central_json")]
    IN  /\ Len(widgets) < MaxWidgets
        /\ lists' = ls
        /\ widgets' = Append(widgets,
                             w @@
                             [configured |-> [model |-> w.model, queryset |-> w.queryset,
                                              max_results |-> w.max_results,
                                              search_fields |-> ls[l].declared]])
        /\ ret' = [op |-> "__init__", w |-> Len(widgets) + 1]
        /\ UNCHANGED <<heap, cache, pages, created, widget>>

\* the Ajax view calls filter_queryset on a widget
FilterQuerysetCall(i, term) ==
    /\ i \in DOMAIN widgets
    /\ LET r == filter_queryset(widgets[i], lists, term)
       IN  /\ lists' = r.lists
           /\ ret' = [op |-> "filter_queryset", w |-> i, term |-> term,
                      error |-> r.error, result |-> r.result]
    /\ UNCHANGED <<heap, cache, pages, created, widget, widgets>>

\* a caller asks a widget for its base queryset
GetQuerysetCall(i) ==
    /\ i \in DOMAIN widgets
    /\ LET r == get_queryset(widgets[i])
       IN  ret' = [op |-> "get_queryset", w |-> i, term |-> << >>,
                   error |-> r.error, result |-> r.queryset]
    /\ UNCHANGED <<heap, cache, pages, created, widget, widgets, lists>>

NextFilter ==
    \/ \E cls \in FilterClasses, kwargs \in InitKwargs : AutoInit(cls, kwargs)
    \/ \E i \in 1..MaxWidgets, term \in Terms : FilterQuerysetCall(i, term)
    \/ \E i \in 1..MaxWidgets : GetQuerysetCall(i)

SpecFilter == InitFilter /\ [][NextFilter]_vars

-----------------------------------------------------------------------------
(* Search properties *)

Resolvable(w) == w.queryset # NoneVal \/ w.model # NoneVal

\* the base queryset the configuration of a widget names
BaseQueryset(w) ==
    IF w.configured.queryset # NoneVal THEN w.configured.queryset.rows
    ELSE DefaultManagerAll(w.configured.model)

\* a row matches the term on at least one of the fields
MatchesAny(row, fields, term) ==
    \E i \in 1..Len(fields) : Contains(Person[row][fields[i]], term)

\* C3: with at least one configured search field, filter_queryset succeeds
\* and returns the rows of the base queryset, each once, that match the term
\* on at least one of the configured fields.
C3_FilterIsOrOverAllFields ==
    (/\ ret.op = "filter_queryset"
     /\ Resolvable(widgets[ret.w])
     /\ widgets[ret.w].configured.search_fields # << >>) =>
        /\ ret.error = NoError
        /\ ret.result =
             Distinct(SelectSeq(BaseQueryset(widgets[ret.w]),
                                LAMBDA row : MatchesAny(row,
                                    widgets[ret.w].configured.search_fields, ret.term)))

\* C7: get_queryset returns the explicit queryset when one is set, else all
\* rows of the model when one is set, else raises the error that names the
\* class; filter_queryset on a widget with neither raises that error and
\* leaves every search_fields list as it was.
C7_GetQuerysetPrecedence ==
    [][ /\ ret'.op = "get_queryset" =>
             LET w == widgets[ret'.w]
             IN  IF w.queryset # NoneVal
                 THEN ret'.error = NoError /\ ret'.result = w.queryset.rows
                 ELSE IF w.model # NoneVal
                 THEN ret'.error = NoError /\ ret'.result = DefaultManagerAll(w.model)
                 ELSE ret'.error = MissingQuerySet(w.cls)
        /\ (ret'.op = "filter_queryset" /\ ~Resolvable(widgets[ret'.w])) =>
             /\ ret'.error = MissingQuerySet(widgets[ret'.w].cls)
             /\ lists' = lists ]_vars

\* a widget with both a model and a queryset has returned its queryset
C7_Witness ==
    /\ ret.op = "get_queryset"
    /\ widgets[ret.w].queryset # NoneVal
    /\ widgets[ret.w].model # NoneVal
    /\ ret.result = <<2, 3, 2>>

\* C8: filter_queryset raises the search_fields error exactly when the
\* widget was configured with empty search_fields.
C8_SearchFieldsErrorIffEmpty ==
    (ret.op = "filter_queryset" /\ Resolvable(widgets[ret.w])) =>
        (ret.error = MissingSearchFields(widgets[ret.w].cls)
            <=> widgets[ret.w].configured.search_fields = << >>)

\* C9: every widget's search_fields, model, queryset and max_results, and
\* every list object, hold their configured values.
C9_FilterLeavesConfiguration ==
    /\ \A l \in DOMAIN lists : lists[l].items = lists[l].declared
    /\ \A i \in DOMAIN widgets :
         /\ lists[widgets[i].search_fields].items = widgets[i].configured.search_fields
         /\ widgets[i].model = widgets[i].configured.model
         /\ widgets[i].queryset = widgets[i].configured.queryset
         /\ widgets[i].max_results = widgets[i].configured.max_results

====
